---- MODULE Spec2Model ----
(***************************************************************************)
(* String Analyzer Service: record model (app/models/profile.py) and the   *)
(* request handlers over the JSON file store (app/api/routes.py).          *)
(*                                                                         *)
(* A Python str is a sequence of one-character strings, so that lower(),   *)
(* split(), substring tests and the regular expressions are computed       *)
(* character by character.  Optional[T] is <<>> (None) or <<x>>.           *)
(***************************************************************************)
EXTENDS Integers, Sequences, FiniteSets, TLC

VARIABLES
    store,   \* parsed content of DATA_FILE: the list of record dicts
    resp,    \* response to the latest request served one at a time
    pc,      \* per worker: "idle", or "loaded" between load_data and save_data
    req,     \* per worker: the request being served
    local,   \* per worker: the list returned by its load_data()
    res,     \* per worker: the response to its latest finished request
    served   \* per worker: the number of requests it has taken

vars == <<store, resp, pc, req, local, res, served>>

(***************************************************************************)
(* Bounds of the model.                                                    *)
(***************************************************************************)
\* datetime.now() is drawn from the instants 0..MaxTime
MaxTime == 1

Times == 0..MaxTime

\* each worker takes at most MaxRequests requests
MaxRequests == 2

\* the integer query parameters are drawn from -1..MaxInt
MaxInt == 3

\* a query is made of at most MaxPhrases phrases
MaxPhrases == 2

\* the worker processes that serve requests on the same DATA_FILE
Workers == {"w1", "w2"}

(***************************************************************************)
(* Python values.                                                          *)
(***************************************************************************)
None == <<>>

Some(x) == <<x>>

IsNone(o) == Len(o) = 0

Val(o) == o[1]

UpperLetters ==
    <<"A", "B", "C", "D", "E", "F", "G", "H", "I", "J", "K", "L", "M",
      "N", "O", "P", "Q", "R", "S", "T", "U", "V", "W", "X", "Y", "Z">>

LowerLetters ==
    <<"a", "b", "c", "d", "e", "f", "g", "h", "i", "j", "k", "l", "m",
      "n", "o", "p", "q", "r", "s", "t", "u", "v", "w", "x", "y", "z">>

Digits == <<"0", "1", "2", "3", "4", "5", "6", "7", "8", "9">>

\* str.lower() of one character
LowerChar(c) ==
    IF \E i \in 1..26 : UpperLetters[i] = c
    THEN LowerLetters[CHOOSE i \in 1..26 : UpperLetters[i] = c]
    ELSE c

\* str.lower()
Lower(s) == [i \in 1..Len(s) |-> LowerChar(s[i])]

\* whitespace as str.split() and the pattern \s see it
IsSpace(c) == c \in {" ", "\t"}

\* s[::-1]
Reverse(s) == [i \in 1..Len(s) |-> s[Len(s) + 1 - i]]

\* s.replace(" ", "")
RemoveBlanks(s) == SelectSeq(s, LAMBDA c : c # " ")

\* sub in s, for two str
Contains(s, sub) ==
    \E i \in 1..(Len(s) - Len(sub) + 1) :
        /\ Len(sub) > 0 => s[i] = sub[1]
        /\ SubSeq(s, i, i + Len(sub) - 1) = sub

(***************************************************************************)
(* Record model: StringRecord.create                                       *)
(***************************************************************************)
\* the strings submitted to the service
Values ==
    {<<"A", "a">>, <<"a", " ", "b">>, <<"b">>, <<"B">>}

ValuesInOrder == <<<<"A", "a">>, <<"a", " ", "b">>, <<"b">>, <<"B">>>>

\* hashlib.sha256(value.encode('utf-8')).hexdigest(), tabulated on Values
Sha256Hex(value) ==
    CASE value = <<"A", "a">> -> "81acaafba961bb831ec40eb965155e3486392c60cfb8c75150beaf2caffc244a"
      [] value = <<"a", " ", "b">> -> "c8687a08aa5d6ed2044328fa6a697ab8e96dc34291e8c2034ae8c38e6fcc6d65"
      [] value = <<"b">> -> "3e23e8160039594a33894f6564e1b1348bbd7a0088d42c4acb73eeaed59c009d"
      [] value = <<"B">> -> "df7e70e5021544f4834bbee64a9e3789febc4be81470df629cad6ddb03320a5c"

IsPalindrome(value) ==
    LET cleaned == RemoveBlanks(Lower(value))
    IN  cleaned = Reverse(cleaned)

UniqueCharacters(value) == Cardinality({value[i] : i \in 1..Len(value)})

\* len(value.split())
WordCount(value) ==
    Cardinality({i \in 1..Len(value) :
                    /\ ~IsSpace(value[i])
                    /\ (i = 1 \/ IsSpace(value[i - 1]))})

CharacterFrequencyMap(value) ==
    [c \in {value[i] : i \in 1..Len(value)} |->
        Cardinality({i \in 1..Len(value) : value[i] = c})]

StringRecordCreate(value, now) ==
    [id         |-> Sha256Hex(value),
     value      |-> value,
     properties |-> [length                  |-> Len(value),
                     is_palindrome           |-> IsPalindrome(value),
                     unique_characters       |-> UniqueCharacters(value),
                     word_count              |-> WordCount(value),
                     sha256_hash             |-> Sha256Hex(value),
                     character_frequency_map |-> CharacterFrequencyMap(value)],
     created_at |-> now]

(***************************************************************************)
(* POST /strings, GET /strings/{string_value}, DELETE /strings/{...}       *)
(***************************************************************************)
\* request bodies of POST /strings
Payloads ==
    {[kind |-> "missing"], [kind |-> "null"], [kind |-> "int"]}
    \cup {[kind |-> "str", value |-> v] : v \in Values}

\* mutant of HasId: only the latest item is compared
HasId_lastOnly(data, id) == Len(data) > 0 /\ data[Len(data)].id = id

\* any(item["id"] == record.id for item in data)
HasId(data, id) == \E i \in 1..Len(data) : data[i].id = id

\* some item of data has item["value"] == string_value
HasValue(data, string_value) ==
    \E i \in 1..Len(data) : data[i].value = string_value

\* mutant of WithoutValue: the values are compared case-insensitively
WithoutValue_anyCase(data, string_value) ==
    SelectSeq(data, LAMBDA item : Lower(item.value) # Lower(string_value))

\* [item for item in data if item["value"] != string_value]
WithoutValue(data, string_value) ==
    SelectSeq(data, LAMBDA item : item.value # string_value)

\* the first item of data whose value is string_value, as Optional
FindByValue(data, string_value) ==
    IF HasValue(data, string_value)
    THEN Some(data[CHOOSE i \in 1..Len(data) :
                    /\ data[i].value = string_value
                    /\ \A j \in 1..(i - 1) : data[j].value # string_value])
    ELSE None

\* mutant of AnalyzeStringOn: the duplicate check is left out
AnalyzeStringOn_noCheck(data, record) ==
    [status |-> 201, save |-> Some(Append(data, record)), body |-> record]

\* analyze_string after load_data(): the status, the list to save (None when
\* nothing is saved) and the body
AnalyzeStringOn(data, record) ==
    IF HasId(data, record.id)
    THEN [status |-> 409, save |-> None,
          body |-> [detail |-> "String already exists in the system"]]
    ELSE [status |-> 201, save |-> Some(Append(data, record)), body |-> record]

\* mutant of DeleteStringOn: the filtered list is not saved
DeleteStringOn_noSave(data, string_value) ==
    IF HasValue(data, string_value)
    THEN [status |-> 204, save |-> None, body |-> [detail |-> ""]]
    ELSE [status |-> 404, save |-> None,
          body |-> [detail |-> "String does not exist in the system"]]

\* delete_string after load_data()
DeleteStringOn(data, string_value) ==
    LET kept == WithoutValue(data, string_value)
    IN  IF Len(kept) = Len(data)
        THEN [status |-> 404, save |-> None,
              body |-> [detail |-> "String does not exist in the system"]]
        ELSE [status |-> 204, save |-> Some(kept), body |-> [detail |-> ""]]

\* save_data(data) when the handler reaches it
Saved(out) == IF IsNone(out.save) THEN store ELSE Val(out.save)

NoRequest == [op |-> "none"]

ConcUnchanged == UNCHANGED <<pc, req, local, res, served>>

\* analyze_string, served alone
AnalyzeString(payload, now) ==
    /\ ConcUnchanged
    /\ IF payload.kind \in {"missing", "null"}
       THEN /\ resp' = [op |-> "create", payload |-> payload, status |-> 400,
                        body |-> [detail |-> "Missing 'value' field"]]
            /\ store' = store
       ELSE IF payload.kind # "str"
       THEN /\ resp' = [op |-> "create", payload |-> payload, status |-> 422,
                        body |-> [detail |-> "Invalid data type for 'value' (must be string)"]]
            /\ store' = store
       ELSE LET record == StringRecordCreate(payload.value, now)
                out == AnalyzeStringOn(store, record)
            IN  /\ store' = Saved(out)
                /\ resp' = [op |-> "create", payload |-> payload,
                            status |-> out.status, body |-> out.body]

\* get_string_by_value, served alone
GetStringByValue(string_value) ==
    /\ ConcUnchanged
    /\ store' = store
    /\ LET found == FindByValue(store, string_value)
       IN  resp' = IF IsNone(found)
                   THEN [op |-> "get", value |-> string_value, status |-> 404,
                         body |-> [detail |-> "String does not exist in the system"]]
                   ELSE [op |-> "get", value |-> string_value, status |-> 200,
                         body |-> Val(found)]

\* delete_string, served alone
DeleteString(string_value) ==
    /\ ConcUnchanged
    /\ LET out == DeleteStringOn(store, string_value)
       IN  /\ store' = Saved(out)
           /\ resp' = [op |-> "delete", value |-> string_value,
                       status |-> out.status, body |-> out.body]

(***************************************************************************)
(* The same handlers served by several workers on one DATA_FILE: a         *)
(* handler's load_data() and its save_data() are two steps, and the steps  *)
(* of different workers interleave.  Each open/read and each open/write is *)
(* one step.                                                               *)
(***************************************************************************)
SeqUnchanged == UNCHANGED resp

\* analyze_string up to data = load_data()
AnalyzeLoad(w, value, now) ==
    /\ pc[w] = "idle"
    /\ served[w] < MaxRequests
    /\ served' = [served EXCEPT ![w] = @ + 1]
    /\ req' = [req EXCEPT ![w] = [op |-> "create", value |-> value,
                                  record |-> StringRecordCreate(value, now)]]
    /\ local' = [local EXCEPT ![w] = store]
    /\ pc' = [pc EXCEPT ![w] = "loaded"]
    /\ UNCHANGED <<store, res>>
    /\ SeqUnchanged

\* analyze_string from the duplicate check to its return
AnalyzeFinish(w) ==
    /\ pc[w] = "loaded"
    /\ req[w].op = "create"
    /\ LET out == AnalyzeStringOn(local[w], req[w].record)
       IN  /\ store' = Saved(out)
           /\ res' = [res EXCEPT ![w] = [op |-> "create", value |-> req[w].value,
                                         status |-> out.status]]
    /\ pc' = [pc EXCEPT ![w] = "idle"]
    /\ req' = [req EXCEPT ![w] = NoRequest]
    /\ local' = [local EXCEPT ![w] = <<>>]
    /\ UNCHANGED served
    /\ SeqUnchanged

\* delete_string up to data = load_data()
DeleteLoad(w, string_value) ==
    /\ pc[w] = "idle"
    /\ served[w] < MaxRequests
    /\ served' = [served EXCEPT ![w] = @ + 1]
    /\ req' = [req EXCEPT ![w] = [op |-> "delete", value |-> string_value]]
    /\ local' = [local EXCEPT ![w] = store]
    /\ pc' = [pc EXCEPT ![w] = "loaded"]
    /\ UNCHANGED <<store, res>>
    /\ SeqUnchanged

\* delete_string from the list comprehension to its return
DeleteFinish(w) ==
    /\ pc[w] = "loaded"
    /\ req[w].op = "delete"
    /\ LET out == DeleteStringOn(local[w], req[w].value)
       IN  /\ store' = Saved(out)
           /\ res' = [res EXCEPT ![w] = [op |-> "delete", value |-> req[w].value,
                                         status |-> out.status]]
    /\ pc' = [pc EXCEPT ![w] = "idle"]
    /\ req' = [req EXCEPT ![w] = NoRequest]
    /\ local' = [local EXCEPT ![w] = <<>>]
    /\ UNCHANGED served
    /\ SeqUnchanged

\* the strings the workers are asked to create and delete
ConcValues == {<<"A", "a">>, <<"b">>}

NextConc ==
    \/ \E w \in Workers, v \in ConcValues, now \in Times : AnalyzeLoad(w, v, now)
    \/ \E w \in Workers : AnalyzeFinish(w)
    \/ \E w \in Workers, v \in ConcValues : DeleteLoad(w, v)
    \/ \E w \in Workers : DeleteFinish(w)

(***************************************************************************)
(* GET /strings: validation and the structured filters                     *)
(***************************************************************************)
\* a dict with no key, and d[k] = v
EmptyDict == [k \in {} |-> None]

DictSet(d, k, v) == [x \in DOMAIN d \cup {k} |-> IF x = k THEN v ELSE d[x]]

\* mutant of ValidationError: the length test is len(contains_character) > 1
ValidationError_emptyAllowed(q) ==
    IF ~IsNone(q.contains_character) /\ Len(Val(q.contains_character)) > 1
    THEN Some("contains_character must be a single character")
    ELSE IF ~IsNone(q.min_length) /\ Val(q.min_length) < 0
    THEN Some("min_length must be non-negative")
    ELSE IF ~IsNone(q.max_length) /\ Val(q.max_length) < 0
    THEN Some("max_length must be non-negative")
    ELSE IF ~IsNone(q.word_count) /\ Val(q.word_count) < 0
    THEN Some("word_count must be non-negative")
    ELSE None

\* the parameter checks of get_strings: the detail of the 400, or None
ValidationError(q) ==
    IF ~IsNone(q.contains_character) /\ Len(Val(q.contains_character)) # 1
    THEN Some("contains_character must be a single character")
    ELSE IF ~IsNone(q.min_length) /\ Val(q.min_length) < 0
    THEN Some("min_length must be non-negative")
    ELSE IF ~IsNone(q.max_length) /\ Val(q.max_length) < 0
    THEN Some("max_length must be non-negative")
    ELSE IF ~IsNone(q.word_count) /\ Val(q.word_count) < 0
    THEN Some("word_count must be non-negative")
    ELSE None

\* is_palindrome.lower() == "true"
PalindromeBool(text) == Lower(text) = <<"t", "r", "u", "e">>

\* mutant of HasCharacter: the stored value alone is lower-cased
HasCharacter_valueOnly(value, character) == Contains(Lower(value), character)

\* contains_character.lower() in d["value"].lower()
HasCharacter(value, character) == Contains(Lower(value), Lower(character))

\* mutant of GetStringsOn: the word_count filter is an elif of the max_length one
GetStringsOn_elif(data, q) ==
    LET err == ValidationError(q)
        d1 == IF IsNone(q.is_palindrome) THEN data
              ELSE SelectSeq(data, LAMBDA d :
                       d.properties.is_palindrome = PalindromeBool(Val(q.is_palindrome)))
        d2 == IF IsNone(q.min_length) THEN d1
              ELSE SelectSeq(d1, LAMBDA d : d.properties.length >= Val(q.min_length))
        d3 == IF IsNone(q.max_length) THEN d2
              ELSE SelectSeq(d2, LAMBDA d : d.properties.length <= Val(q.max_length))
        d4 == IF IsNone(q.word_count) \/ ~IsNone(q.max_length) THEN d3
              ELSE SelectSeq(d3, LAMBDA d : d.properties.word_count = Val(q.word_count))
        d5 == IF IsNone(q.contains_character) THEN d4
              ELSE SelectSeq(d4, LAMBDA d : HasCharacter(d.value, Val(q.contains_character)))
        f1 == IF IsNone(q.is_palindrome) THEN EmptyDict
              ELSE DictSet(EmptyDict, "is_palindrome", PalindromeBool(Val(q.is_palindrome)))
        f2 == IF IsNone(q.min_length) THEN f1
              ELSE DictSet(f1, "min_length", Val(q.min_length))
        f3 == IF IsNone(q.max_length) THEN f2
              ELSE DictSet(f2, "max_length", Val(q.max_length))
        f4 == IF IsNone(q.word_count) \/ ~IsNone(q.max_length) THEN f3
              ELSE DictSet(f3, "word_count", Val(q.word_count))
        f5 == IF IsNone(q.contains_character) THEN f4
              ELSE DictSet(f4, "contains_character", Val(q.contains_character))
    IN  IF ~IsNone(err)
        THEN [status |-> 400, body |-> [detail |-> Val(err)]]
        ELSE [status |-> 200,
              body |-> [data |-> d5, count |-> Len(d5), filters_applied |-> f5]]

\* get_strings on the list returned by load_data()
GetStringsOn(data, q) ==
    LET err == ValidationError(q)
        d1 == IF IsNone(q.is_palindrome) THEN data
              ELSE SelectSeq(data, LAMBDA d :
                       d.properties.is_palindrome = PalindromeBool(Val(q.is_palindrome)))
        d2 == IF IsNone(q.min_length) THEN d1
              ELSE SelectSeq(d1, LAMBDA d : d.properties.length >= Val(q.min_length))
        d3 == IF IsNone(q.max_length) THEN d2
              ELSE SelectSeq(d2, LAMBDA d : d.properties.length <= Val(q.max_length))
        d4 == IF IsNone(q.word_count) THEN d3
              ELSE SelectSeq(d3, LAMBDA d : d.properties.word_count = Val(q.word_count))
        d5 == IF IsNone(q.contains_character) THEN d4
              ELSE SelectSeq(d4, LAMBDA d : HasCharacter(d.value, Val(q.contains_character)))
        f1 == IF IsNone(q.is_palindrome) THEN EmptyDict
              ELSE DictSet(EmptyDict, "is_palindrome", PalindromeBool(Val(q.is_palindrome)))
        f2 == IF IsNone(q.min_length) THEN f1
              ELSE DictSet(f1, "min_length", Val(q.min_length))
        f3 == IF IsNone(q.max_length) THEN f2
              ELSE DictSet(f2, "max_length", Val(q.max_length))
        f4 == IF IsNone(q.word_count) THEN f3
              ELSE DictSet(f3, "word_count", Val(q.word_count))
        f5 == IF IsNone(q.contains_character) THEN f4
              ELSE DictSet(f4, "contains_character", Val(q.contains_character))
    IN  IF ~IsNone(err)
        THEN [status |-> 400, body |-> [detail |-> Val(err)]]
        ELSE [status |-> 200,
              body |-> [data |-> d5, count |-> Len(d5), filters_applied |-> f5]]

\* mutant of GetStrings: the filtered list is written back with save_data
GetStrings_saved(q) ==
    /\ ConcUnchanged
    /\ LET out == GetStringsOn(store, q)
       IN  /\ store' = IF out.status = 200 THEN out.body.data ELSE store
           /\ resp' = [op |-> "list", query |-> q, status |-> out.status,
                       body |-> out.body]

\* get_strings, served alone
GetStrings(q) ==
    /\ ConcUnchanged
    /\ store' = store
    /\ LET out == GetStringsOn(store, q)
       IN  resp' = [op |-> "list", query |-> q, status |-> out.status, body |-> out.body]

\* the query parameters of GET /strings
PalindromeArgs ==
    {None, Some(<<"t", "r", "u", "e">>), Some(<<"T", "r", "u", "e">>),
     Some(<<"f", "a", "l", "s", "e">>), Some(<<"y", "e", "s">>)}

IntArgs == {None} \cup {Some(n) : n \in -1..MaxInt}

CharacterArgs ==
    {None, Some(<<>>), Some(<<"a">>), Some(<<"A">>), Some(<<"b">>), Some(<<"a", "b">>)}

Criteria ==
    [is_palindrome : PalindromeArgs, min_length : IntArgs, max_length : IntArgs,
     word_count : IntArgs, contains_character : CharacterArgs]

NoCriteria ==
    [is_palindrome |-> None, min_length |-> None, max_length |-> None,
     word_count |-> None, contains_character |-> None]

(***************************************************************************)
(* GET /strings/filter-by-natural-language                                 *)
(***************************************************************************)
\* the literals of the five rules
LitPalindrome == <<"p", "a", "l", "i", "n", "d", "r", "o", "m", "e">>

LitPalindromic == <<"p", "a", "l", "i", "n", "d", "r", "o", "m", "i", "c">>

LitSingleWord == <<"s", "i", "n", "g", "l", "e", " ", "w", "o", "r", "d">>

LitOneWord == <<"o", "n", "e", " ", "w", "o", "r", "d">>

LitLongerThan == <<"l", "o", "n", "g", "e", "r", " ", "t", "h", "a", "n", " ">>

LitMoreThan == <<"m", "o", "r", "e", " ", "t", "h", "a", "n", " ">>

LitCharacter == <<" ", "c", "h", "a", "r", "a", "c", "t", "e", "r">>

LitContain == <<"c", "o", "n", "t", "a", "i", "n">>

LitS == <<"s">>

LitIng == <<"i", "n", "g">>

LitThe == <<"t", "h", "e">>

LitLetter == <<"l", "e", "t", "t", "e", "r">>

LitFirstVowel == <<"f", "i", "r", "s", "t", " ", "v", "o", "w", "e", "l">>

\* the longest decimal numeral that int() converts
\* (sys.int_info.default_max_str_digits)
IntMaxStrDigits == 4300

\* s[i:].startswith(lit), i counted from 1
StartsAt(s, i, lit) ==
    /\ i + Len(lit) - 1 <= Len(s)
    /\ Len(lit) > 0 => s[i] = lit[1]
    /\ SubSeq(s, i, i + Len(lit) - 1) = lit

\* \d
IsDigit(c) == \E k \in 1..10 : Digits[k] = c

\* [a-z]
IsLowerLetter(c) == \E k \in 1..26 : LowerLetters[k] = c

\* the position after the longest run of digits of s from i on
DigitsEnd(s, i) ==
    LET stops == {j \in i..Len(s) : ~IsDigit(s[j])}
    IN  IF stops = {} THEN Len(s) + 1
        ELSE CHOOSE j \in stops : \A k \in stops : j <= k

\* the position after the longest run of whitespace of s from i on
SpacesEnd(s, i) ==
    LET stops == {j \in i..Len(s) : ~IsSpace(s[j])}
    IN  IF stops = {} THEN Len(s) + 1
        ELSE CHOOSE j \in stops : \A k \in stops : j <= k

\* the value of one decimal digit
DigitValue(c) == (CHOOSE k \in 1..10 : Digits[k] = c) - 1

\* int(text) for a run of digits: None stands for the ValueError
RECURSIVE DecimalValue(_)
DecimalValue(text) ==
    IF Len(text) = 0 THEN 0
    ELSE 10 * DecimalValue(SubSeq(text, 1, Len(text) - 1)) + DigitValue(text[Len(text)])

IntOf(text) ==
    IF Len(text) > IntMaxStrDigits THEN None ELSE Some(DecimalValue(text))

\* the least element of a non-empty set of positions
Least(positions) == CHOOSE i \in positions : \A j \in positions : i <= j

\* re.match of  longer than (\d+)|more than (\d+) character  at position i:
\* the captured digits, or None
LengthMatchAt(s, i) ==
    IF /\ StartsAt(s, i, LitLongerThan)
       /\ DigitsEnd(s, i + Len(LitLongerThan)) > i + Len(LitLongerThan)
    THEN Some(SubSeq(s, i + Len(LitLongerThan),
                     DigitsEnd(s, i + Len(LitLongerThan)) - 1))
    ELSE IF StartsAt(s, i, LitMoreThan)
    THEN LET from == i + Len(LitMoreThan)
             \* \d+ gives characters back until " character" follows
             ends == {e \in (from + 1)..DigitsEnd(s, from) :
                         StartsAt(s, e, LitCharacter)}
         IN  IF ends = {} THEN None
             ELSE Some(SubSeq(s, from, (CHOOSE e \in ends : \A f \in ends : f <= e) - 1))
    ELSE None

\* re.search of the length pattern: the capture of the leftmost match
LengthMatch(s) ==
    LET starts == {i \in 1..Len(s) :
                      (s[i] = "l" \/ s[i] = "m") /\ ~IsNone(LengthMatchAt(s, i))}
    IN  IF starts = {} THEN None ELSE LengthMatchAt(s, Least(starts))

\* the concatenation of the sequences of xs, in order
RECURSIVE Flatten(_)
Flatten(xs) == IF Len(xs) = 0 THEN <<>> ELSE Head(xs) \o Flatten(Tail(xs))

\* (?:s|ing)? at p: the positions where the match can go on, first choice first
SuffixEnds(s, p) ==
    (IF StartsAt(s, p, LitS) THEN <<p + Len(LitS)>> ELSE <<>>)
    \o (IF StartsAt(s, p, LitIng) THEN <<p + Len(LitIng)>> ELSE <<>>)
    \o <<p>>

\* \s+ at p: the longest run first, then one character less, down to one
SpacesEnds(s, p) ==
    LET e == SpacesEnd(s, p)
    IN  [k \in 1..(e - p) |-> e + 1 - k]

\* (?:word\s+)? at p: with the word first, then without it
WordEnds(s, p, word) ==
    (IF StartsAt(s, p, word) THEN SpacesEnds(s, p + Len(word)) ELSE <<>>) \o <<p>>

\* mutant of CharMatchAt: the optional words are skipped first (lazy groups)
CharMatchAt_lazy(s, i) ==
    IF ~StartsAt(s, i, LitContain) THEN None
    ELSE LET AfterLetter(p) ==
                 IF p <= Len(s) /\ IsLowerLetter(s[p]) THEN <<s[p]>> ELSE <<>>
             AfterThe(p) ==
                 LET ends == Reverse(WordEnds(s, p, LitLetter))
                 IN  Flatten([k \in 1..Len(ends) |-> AfterLetter(ends[k])])
             AfterSpaces(p) ==
                 LET ends == Reverse(WordEnds(s, p, LitThe))
                 IN  Flatten([k \in 1..Len(ends) |-> AfterThe(ends[k])])
             AfterSuffix(p) ==
                 LET ends == SpacesEnds(s, p)
                 IN  Flatten([k \in 1..Len(ends) |-> AfterSpaces(ends[k])])
             starts == SuffixEnds(s, i + Len(LitContain))
             found == Flatten([k \in 1..Len(starts) |-> AfterSuffix(starts[k])])
         IN  IF Len(found) = 0 THEN None ELSE Some(<<found[1]>>)

\* re.match of  contain(?:s|ing)?\s+(?:the\s+)?(?:letter\s+)?([a-z])  at
\* position i: the captured letter of the first way to match in the
\* backtracking order, or None
CharMatchAt(s, i) ==
    IF ~StartsAt(s, i, LitContain) THEN None
    ELSE LET AfterLetter(p) ==
                 IF p <= Len(s) /\ IsLowerLetter(s[p]) THEN <<s[p]>> ELSE <<>>
             AfterThe(p) ==
                 LET ends == WordEnds(s, p, LitLetter)
                 IN  Flatten([k \in 1..Len(ends) |-> AfterLetter(ends[k])])
             AfterSpaces(p) ==
                 LET ends == WordEnds(s, p, LitThe)
                 IN  Flatten([k \in 1..Len(ends) |-> AfterThe(ends[k])])
             AfterSuffix(p) ==
                 LET ends == SpacesEnds(s, p)
                 IN  Flatten([k \in 1..Len(ends) |-> AfterSpaces(ends[k])])
             starts == SuffixEnds(s, i + Len(LitContain))
             found == Flatten([k \in 1..Len(starts) |-> AfterSuffix(starts[k])])
         IN  IF Len(found) = 0 THEN None ELSE Some(<<found[1]>>)

\* re.search of the character pattern: the capture of the leftmost match
CharMatch(s) ==
    LET starts == {i \in 1..Len(s) : s[i] = "c" /\ ~IsNone(CharMatchAt(s, i))}
    IN  IF starts = {} THEN None ELSE CharMatchAt(s, Least(starts))

\* the state of the try block: parsed_filters so far, and whether a statement
\* has raised
NothingParsed == [raised |-> FALSE, parsed_filters |-> EmptyDict]

\* parsed_filters[k] = v, unless an earlier statement has raised
SetFilter(parse, k, v) ==
    IF parse.raised THEN parse
    ELSE [parse EXCEPT !.parsed_filters = DictSet(@, k, v)]

\* rule 1: "palindrome" or "palindromic"
ParsePalindrome(query_lower, parse) ==
    IF Contains(query_lower, LitPalindrome) \/ Contains(query_lower, LitPalindromic)
    THEN SetFilter(parse, "is_palindrome", TRUE)
    ELSE parse

\* rule 2: "single word" or "one word"
ParseWordCount(query_lower, parse) ==
    IF Contains(query_lower, LitSingleWord) \/ Contains(query_lower, LitOneWord)
    THEN SetFilter(parse, "word_count", 1)
    ELSE parse

\* mutant of SetMinLength: the rule also stores length_val as max_length
SetMinLength_withMax(parse, length_val) ==
    IF IsNone(length_val) THEN [parse EXCEPT !.raised = TRUE]
    ELSE SetFilter(SetFilter(parse, "min_length", Val(length_val) + 1),
                   "max_length", Val(length_val))

\* length_val + 1 stored, or the ValueError of int() raised
SetMinLength(parse, length_val) ==
    IF IsNone(length_val) THEN [parse EXCEPT !.raised = TRUE]
    ELSE SetFilter(parse, "min_length", Val(length_val) + 1)

\* rule 3, given length_match
ParseLengthOf(length_match, parse) ==
    IF IsNone(length_match) THEN parse
    ELSE SetMinLength(parse, IntOf(Val(length_match)))

\* rule 3: "longer than N" or "more than N character"
ParseLength(query_lower, parse) == ParseLengthOf(LengthMatch(query_lower), parse)

\* rule 4, given char_match
ParseCharacterOf(char_match, parse) ==
    IF IsNone(char_match) THEN parse
    ELSE SetFilter(parse, "contains_character", Val(char_match))

\* rule 4: "contain(s/ing) [the] [letter] c"
ParseCharacter(query_lower, parse) == ParseCharacterOf(CharMatch(query_lower), parse)

\* rule 5: "first vowel"
ParseFirstVowel(query_lower, parse) ==
    IF Contains(query_lower, LitFirstVowel)
    THEN SetFilter(parse, "contains_character", <<"a">>)
    ELSE parse

\* mutant of ParseLower: the "first vowel" rule runs before the character rule
ParseLower_vowelFirst(query_lower) ==
    ParseCharacter(query_lower,
      ParseFirstVowel(query_lower,
        ParseLength(query_lower,
          ParseWordCount(query_lower,
            ParsePalindrome(query_lower, NothingParsed)))))

\* the five rules in the order of the code
ParseLower(query_lower) ==
    ParseFirstVowel(query_lower,
      ParseCharacter(query_lower,
        ParseLength(query_lower,
          ParseWordCount(query_lower,
            ParsePalindrome(query_lower, NothingParsed)))))

\* filter_by_natural_language, the parsing: parsed_filters, or raised when
\* int() raises ValueError
ParseQuery(query) == ParseLower(Lower(query))

\* mutant of ApplyParsedFilters: the character is sought in d["value"] as stored
ApplyParsedFilters_noLower(data, parsed_filters) ==
    LET Has(k) == k \in DOMAIN parsed_filters
        d1 == IF ~Has("is_palindrome") THEN data
              ELSE SelectSeq(data, LAMBDA d :
                       d.properties.is_palindrome = parsed_filters["is_palindrome"])
        d2 == IF ~Has("word_count") THEN d1
              ELSE SelectSeq(d1, LAMBDA d :
                       d.properties.word_count = parsed_filters["word_count"])
        d3 == IF ~Has("min_length") THEN d2
              ELSE SelectSeq(d2, LAMBDA d :
                       d.properties.length >= parsed_filters["min_length"])
        d4 == IF ~Has("max_length") THEN d3
              ELSE SelectSeq(d3, LAMBDA d :
                       d.properties.length <= parsed_filters["max_length"])
        d5 == IF ~Has("contains_character") THEN d4
              ELSE SelectSeq(d4, LAMBDA d :
                       Contains(d.value, parsed_filters["contains_character"]))
    IN  d5

\* the filters of filter_by_natural_language applied to the loaded list
ApplyParsedFilters(data, parsed_filters) ==
    LET Has(k) == k \in DOMAIN parsed_filters
        d1 == IF ~Has("is_palindrome") THEN data
              ELSE SelectSeq(data, LAMBDA d :
                       d.properties.is_palindrome = parsed_filters["is_palindrome"])
        d2 == IF ~Has("word_count") THEN d1
              ELSE SelectSeq(d1, LAMBDA d :
                       d.properties.word_count = parsed_filters["word_count"])
        d3 == IF ~Has("min_length") THEN d2
              ELSE SelectSeq(d2, LAMBDA d :
                       d.properties.length >= parsed_filters["min_length"])
        d4 == IF ~Has("max_length") THEN d3
              ELSE SelectSeq(d3, LAMBDA d :
                       d.properties.length <= parsed_filters["max_length"])
        d5 == IF ~Has("contains_character") THEN d4
              ELSE SelectSeq(d4, LAMBDA d :
                       Contains(Lower(d.value), parsed_filters["contains_character"]))
    IN  d5

\* the success response of filter_by_natural_language
Interpreted(found, query, parsed_filters) ==
    [status |-> 200,
     body |-> [data |-> found, count |-> Len(found),
               interpreted_query |-> [original |-> query,
                                      parsed_filters |-> parsed_filters]]]

\* mutant of Respond: an empty parsed_filters is not an error
Respond_noEmptyCheck(data, query, parse) ==
    IF parse.raised
    THEN [status |-> 400,
          body |-> [detail |-> "Unable to parse natural language query: ValueError"]]
    ELSE Interpreted(ApplyParsedFilters(data, parse.parsed_filters), query,
                     parse.parsed_filters)

\* filter_by_natural_language after the rules: the error checks, the filters
\* and the response
Respond(data, query, parse) ==
    IF parse.raised
    THEN [status |-> 400,
          body |-> [detail |-> "Unable to parse natural language query: ValueError"]]
    ELSE IF DOMAIN parse.parsed_filters = {}
    THEN [status |-> 400,
          body |-> [detail |-> "Unable to parse natural language query"]]
    ELSE IF /\ "min_length" \in DOMAIN parse.parsed_filters
            /\ "max_length" \in DOMAIN parse.parsed_filters
            /\ parse.parsed_filters["min_length"] > parse.parsed_filters["max_length"]
    THEN [status |-> 422,
          body |-> [detail |-> "Query parsed but resulted in conflicting filters"]]
    ELSE Interpreted(ApplyParsedFilters(data, parse.parsed_filters), query,
                     parse.parsed_filters)

\* filter_by_natural_language on the list that load_data() returns
FilterByNaturalLanguageOn(data, query) == Respond(data, query, ParseQuery(query))

\* filter_by_natural_language, served alone
FilterByNaturalLanguage(query) ==
    /\ ConcUnchanged
    /\ store' = store
    /\ LET out == FilterByNaturalLanguageOn(store, query)
       IN  resp' = [op |-> "nl", query |-> query, status |-> out.status,
                    body |-> out.body]

\* the pieces the queries are made of
Phrases ==
    <<<<"a", "l", "l", " ">>,
      <<"P", "a", "l", "i", "n", "d", "r", "o", "m", "e">>,
      <<"P", "A", "L", "I", "N", "D", "R", "O", "M", "I", "C", " ">>,
      <<"p", "a", "l", "i", "n", "d", "r", "o", "m">>,
      <<"s", "i", "n", "g", "l", "e", " ", "w", "o", "r", "d", " ">>,
      <<"O", "n", "e", " ", "W", "o", "r", "d">>,
      <<"o", "n", "e", " ", " ", "w", "o", "r", "d">>,
      <<"l", "o", "n", "g", "e", "r", " ", "t", "h", "a", "n", " ", "1">>,
      <<"l", "o", "n", "g", "e", "r", " ", "t", "h", "a", "n", " ", "1",
        "2", " ", "c", "h", "a", "r", "a", "c", "t", "e", "r", "s">>,
      <<"L", "o", "n", "g", "e", "r", " ", "T", "h", "a", "n", " ">>,
      <<"m", "o", "r", "e", " ", "t", "h", "a", "n", " ", "3", " ", "c",
        "h", "a", "r", "a", "c", "t", "e", "r", "s">>,
      <<"m", "o", "r", "e", " ", "t", "h", "a", "n", " ", "7">>,
      <<" ", "c", "h", "a", "r", "a", "c", "t", "e", "r">>,
      <<"9">>,
      <<"c", "o", "n", "t", "a", "i", "n", "s", " ", "t", "h", "e", " ",
        "l", "e", "t", "t", "e", "r", " ", "b">>,
      <<"C", "o", "n", "t", "a", "i", "n", "i", "n", "g", " ", "A">>,
      <<"c", "o", "n", "t", "a", "i", "n", " ", "t", "h", "e">>,
      <<"c", "o", "n", "t", "a", "i", "n", "s", " ", "l", "e", "t", "t",
        "e", "r", " ">>,
      <<"c", "o", "n", "t", "a", "i", "n", "s">>,
      <<" ", "q">>,
      <<"f", "i", "r", "s", "t", " ", "v", "o", "w", "e", "l">>,
      <<"t", "h", "e", " ", "f", "i", "r", "s", "t", " ", " ", "v", "o",
        "w", "e", "l">>,
      <<"g", "i", "b", "b", "e", "r", "i", "s", "h", " ", "x", "y", "z",
        " ", "1", "2", "3">>,
      <<"c", "o", "n", "t", "a", "i", "n", "i", "n", "g", "\t", "t", "h",
        "e", "\t", " ", "l", "e", "t", "t", "e", "r">>>>

\* the concatenation of the phrases numbered by picks
RECURSIVE Join(_)
Join(picks) ==
    IF Len(picks) = 0 THEN <<>> ELSE Phrases[Head(picks)] \o Join(Tail(picks))

\* a run of IntMaxStrDigits + 1 digits
LongNumeral == [i \in 1..(IntMaxStrDigits + 1) |-> "9"]

\* the queries: up to MaxPhrases phrases, and three with a numeral that int()
\* does not convert
Queries ==
    {Join(picks) : picks \in UNION {[1..n -> 1..Len(Phrases)] : n \in 0..MaxPhrases}}
    \cup {LitLongerThan \o LongNumeral,
          LitPalindrome \o <<" ">> \o LitMoreThan \o LongNumeral \o LitCharacter,
          LitMoreThan \o LongNumeral}

\* the lists of records the service can have stored at instant 0
RECURSIVE StoresOver(_)
StoresOver(values) ==
    {<<>>} \cup UNION {{Append(st, StringRecordCreate(v, 0)) : st \in StoresOver(values \ {v})}
                       : v \in values}

(***************************************************************************)
(* Specifications                                                          *)
(***************************************************************************)
Init ==
    /\ store = <<>>
    /\ resp = NoRequest
    /\ pc = [w \in Workers |-> "idle"]
    /\ req = [w \in Workers |-> NoRequest]
    /\ local = [w \in Workers |-> <<>>]
    /\ res = [w \in Workers |-> NoRequest]
    /\ served = [w \in Workers |-> 0]

\* the filter requests made between creates and deletes
SomeCriteria ==
    {NoCriteria,
     [NoCriteria EXCEPT !.is_palindrome = Some(<<"t", "r", "u", "e">>)],
     [NoCriteria EXCEPT !.contains_character = Some(<<"A">>), !.max_length = Some(2)],
     [NoCriteria EXCEPT !.word_count = Some(-1)]}

SomeQueries == {Phrases[k] : k \in {3, 8, 15, 23}}

Next ==
    \/ \E p \in Payloads, now \in Times : AnalyzeString(p, now)
    \/ \E v \in Values : GetStringByValue(v)
    \/ \E v \in Values : DeleteString(v)
    \/ \E q \in SomeCriteria : GetStrings(q)
    \/ \E query \in SomeQueries : FilterByNaturalLanguage(query)

Spec == Init /\ [][Next]_vars

\* one GET /strings for every stored list and every combination of parameters
InitFilter ==
    /\ store \in StoresOver(Values)
    /\ resp = NoRequest
    /\ pc = [w \in Workers |-> "idle"]
    /\ req = [w \in Workers |-> NoRequest]
    /\ local = [w \in Workers |-> <<>>]
    /\ res = [w \in Workers |-> NoRequest]
    /\ served = [w \in Workers |-> 0]

NextFilter == resp = NoRequest /\ \E q \in Criteria : GetStrings(q)

SpecFilter == InitFilter /\ [][NextFilter]_vars

\* one GET /strings/filter-by-natural-language for every query, on the empty
\* list and on a list of all four values
InitNL ==
    /\ store \in {<<>>, [i \in 1..4 |-> StringRecordCreate(ValuesInOrder[i], 0)]}
    /\ resp = NoRequest
    /\ pc = [w \in Workers |-> "idle"]
    /\ req = [w \in Workers |-> NoRequest]
    /\ local = [w \in Workers |-> <<>>]
    /\ res = [w \in Workers |-> NoRequest]
    /\ served = [w \in Workers |-> 0]

NextNL == resp = NoRequest /\ \E query \in Queries : FilterByNaturalLanguage(query)

SpecNL == InitNL /\ [][NextNL]_vars

SpecConc == Init /\ [][NextConc]_vars

\* the phrases that set a filter, one or two to a query
KeyPhrases == {2, 5, 8, 11, 15, 16, 21, 23}

PhraseQueries ==
    {Phrases[i] : i \in KeyPhrases}
    \cup {Phrases[i] \o <<" ">> \o Phrases[j] : i, j \in KeyPhrases}

\* one GET /strings/filter-by-natural-language for every stored list
NextDelegate ==
    resp = NoRequest /\ \E query \in PhraseQueries : FilterByNaturalLanguage(query)

SpecDelegate == InitFilter /\ [][NextDelegate]_vars

(***************************************************************************)
(* Properties                                                              *)
(***************************************************************************)
\* the records of data whose value is v
RecordsWith(data, v) == {data[i] : i \in {j \in 1..Len(data) : data[j].value = v}}

\* C1: in every reachable state, also when the load and save steps of
\* concurrent creates and deletes interleave, no two stored records have the
\* same id, nor the same value.
C1_UniqueIds ==
    \A i, j \in 1..Len(store) :
        i # j => /\ store[i].id # store[j].id
                 /\ store[i].value # store[j].value

\* two interleaved creates of one value have both answered 201 and one record
\* of it is stored
C1_Witness ==
    /\ \A w \in Workers : pc[w] = "idle" /\ served[w] = 1
    /\ \A w \in Workers : res[w].op = "create" /\ res[w].status = 201
    /\ \A w, u \in Workers : res[w].value = res[u].value
    /\ Len(store) = 1

\* C2: a create(v) issued while a record with value v is stored answers 409
\* and leaves the stored list as it was.
C2_DuplicateConflict ==
    [][\A v \in Values :
          (/\ resp'.op = "create"
           /\ resp'.payload = [kind |-> "str", value |-> v]
           /\ HasValue(store, v))
          => (resp'.status = 409 /\ store' = store)]_vars

\* a duplicate create has been refused while two records are stored
C2_Witness ==
    /\ resp.op = "create"
    /\ resp.status = 409
    /\ Len(store) >= 2

\* C3: after delete(v) answers 204 no stored record has value v; while no
\* record has value v, get(v) and delete(v) answer 404; and a record with
\* value v appears again only by a create(v) answering 201.
C3_DeleteThenNotFound ==
    [][\A v \in Values :
          /\ (resp'.op = "delete" /\ resp'.value = v /\ resp'.status = 204)
             => ~HasValue(store', v)
          /\ (~HasValue(store, v) /\ resp'.op \in {"get", "delete"} /\ resp'.value = v)
             => resp'.status = 404
          /\ (~HasValue(store, v) /\ HasValue(store', v))
             => (/\ resp'.op = "create"
                 /\ resp'.status = 201
                 /\ resp'.payload = [kind |-> "str", value |-> v])]_vars

\* a delete has answered 204 and left other records stored
C3_Witness ==
    /\ resp.op = "delete"
    /\ resp.status = 204
    /\ Len(store) >= 1

\* C4: requests being served one at a time, a created record stays stored
\* with the same id, value, properties and created_at until a delete of its
\* value answers 204; a create answering 201 has stored the record it
\* returns, and get(v) returns the stored record of v.
C4_RecordImmutable ==
    [][/\ \A v \in Values :
            (/\ HasValue(store, v)
             /\ ~(resp'.op = "delete" /\ resp'.value = v /\ resp'.status = 204))
            => RecordsWith(store', v) = RecordsWith(store, v)
       /\ (resp'.op = "create" /\ resp'.status = 201)
            => RecordsWith(store', resp'.payload.value) = {resp'.body}
       /\ (resp'.op = "get" /\ HasValue(store', resp'.value))
            => (/\ resp'.status = 200
                /\ RecordsWith(store', resp'.value) = {resp'.body})]_vars

\* get returns the oldest of three stored records
C4_Witness ==
    /\ Len(store) = 3
    /\ resp.op = "get"
    /\ resp.status = 200
    /\ resp.body = store[1]

\* the names of the criteria of GET /strings, and those a request supplies
CriteriaNames ==
    {"is_palindrome", "min_length", "max_length", "word_count", "contains_character"}

Supplied(q) == {k \in CriteriaNames : ~IsNone(q[k])}

\* the boolean an is_palindrome parameter stands for
AsBoolean(text) == Lower(text) = <<"t", "r", "u", "e">>

\* record d satisfies every criterion that q supplies
Satisfies(d, q) ==
    /\ ~IsNone(q.is_palindrome)
          => d.properties.is_palindrome = AsBoolean(Val(q.is_palindrome))
    /\ ~IsNone(q.min_length) => d.properties.length >= Val(q.min_length)
    /\ ~IsNone(q.max_length) => d.properties.length <= Val(q.max_length)
    /\ ~IsNone(q.word_count) => d.properties.word_count = Val(q.word_count)
    /\ ~IsNone(q.contains_character)
          => \E i \in 1..Len(d.value) :
                <<LowerChar(d.value[i])>> = Lower(Val(q.contains_character))

\* C5: a successful GET /strings returns exactly the stored records that
\* satisfy all supplied criteria, in store order, contains_character being
\* compared case-insensitively; count is the number of returned records, and
\* with no criterion every stored record is returned.
C5_FilterSelectsMatching ==
    (resp.op = "list" /\ resp.status = 200)
    => /\ resp.body.data = SelectSeq(store, LAMBDA d : Satisfies(d, resp.query))
       /\ resp.body.count = Len(resp.body.data)
       /\ resp.query = NoCriteria => resp.body.data = store

\* an upper-case contains_character and a min_length have selected two of
\* four stored records
C5_Witness ==
    /\ resp.op = "list"
    /\ resp.status = 200
    /\ resp.query.contains_character = Some(<<"A">>)
    /\ ~IsNone(resp.query.min_length)
    /\ Len(store) = 4
    /\ resp.body.count = 2

\* a request that GET /strings rejects
Invalid(q) ==
    \/ ~IsNone(q.contains_character) /\ Len(Val(q.contains_character)) # 1
    \/ \E k \in {"min_length", "max_length", "word_count"} :
          ~IsNone(q[k]) /\ Val(q[k]) < 0

\* C6: GET /strings answers 400 without data when contains_character has a
\* length other than 1 or min_length, max_length or word_count is negative,
\* and 200 otherwise, with filters_applied holding exactly the supplied
\* criteria and their values, is_palindrome as a boolean.
C6_ValidationAndEcho ==
    resp.op = "list"
    => IF Invalid(resp.query)
       THEN resp.status = 400 /\ DOMAIN resp.body = {"detail"}
       ELSE /\ resp.status = 200
            /\ DOMAIN resp.body.filters_applied = Supplied(resp.query)
            /\ \A k \in Supplied(resp.query) :
                  resp.body.filters_applied[k] =
                      IF k = "is_palindrome"
                      THEN AsBoolean(Val(resp.query[k]))
                      ELSE Val(resp.query[k])

\* an empty contains_character has been rejected
C6_Witness ==
    /\ resp.op = "list"
    /\ resp.status = 400
    /\ resp.query.contains_character = Some(<<>>)
    /\ Len(store) > 0

\* the request that supplies criterion k of q alone
Only(q, k) == [NoCriteria EXCEPT ![k] = q[k]]

\* C7: for a request with two criteria, filtering by one criterion and then
\* filtering the result by the other gives, in either order, the records of
\* the one call that supplies both.
C7_OrderIndependent ==
    (resp.op = "list" /\ resp.status = 200 /\ Cardinality(Supplied(resp.query)) = 2)
    => \A k1, k2 \in Supplied(resp.query) :
          k1 # k2 =>
             GetStringsOn(GetStringsOn(store, Only(resp.query, k1)).body.data,
                          Only(resp.query, k2)).body.data = resp.body.data

\* min_length and max_length of the same value have selected some, not all,
\* of the stored records
C7_Witness ==
    /\ resp.op = "list"
    /\ resp.status = 200
    /\ Supplied(resp.query) = {"min_length", "max_length"}
    /\ resp.query.min_length = resp.query.max_length
    /\ resp.body.count > 0
    /\ resp.body.count < Len(store)

\* the query of a natural-language request, lower-cased
QueryLower == Lower(resp.query)

\* the phrase stands in the text at position i
At(text, i, phrase) ==
    /\ i >= 1
    /\ i + Len(phrase) - 1 <= Len(text)
    /\ \A k \in 1..Len(phrase) : text[i + k - 1] = phrase[k]

\* rule 1 and rule 2 and rule 5: a phrase occurs in the text
Occurs(text, phrase) == \E i \in 1..Len(text) : At(text, i, phrase)

\* rule 3: where the numeral N of "longer than N" or "more than N character"
\* at position i begins
NumeralFrom(text, i) ==
    IF At(text, i, LitLongerThan) THEN i + Len(LitLongerThan) ELSE i + Len(LitMoreThan)

\* rule 3: where that numeral ends: for "longer than" before the first
\* character that is no digit, for "more than" before " character"
NumeralEnds(text, i) ==
    {to \in NumeralFrom(text, i)..Len(text) :
        /\ IF At(text, i, LitLongerThan)
           THEN to = Len(text) \/ ~IsDigit(text[to + 1])
           ELSE At(text, to + 1, LitCharacter)
        /\ \A k \in NumeralFrom(text, i)..to : IsDigit(text[k])}

\* rule 3: the positions of the occurrences
LengthOccurrences(text) ==
    {i \in 1..Len(text) :
        /\ At(text, i, LitLongerThan) \/ At(text, i, LitMoreThan)
        /\ NumeralEnds(text, i) # {}}

\* rule 4: the letter c of  contain(s/ing) [the] [letter] c  at position i,
\* read with or without the words "the" and "letter"; None if the text does
\* not read that way
LetterRead(text, i, withThe, withLetter) ==
    LET Blanks(p) == SpacesEnd(text, p)
        Word(p, word, with) ==
            IF ~with THEN p
            ELSE IF At(text, p, word) /\ Blanks(p + Len(word)) > p + Len(word)
            THEN Blanks(p + Len(word))
            ELSE 0
        Letter(p) ==
            IF p >= 1 /\ p <= Len(text) /\ IsLowerLetter(text[p])
            THEN Some(<<text[p]>>) ELSE None
        Rest(p) ==
            IF Blanks(p) = p THEN None
            ELSE LET afterThe == Word(Blanks(p), LitThe, withThe)
                 IN  IF afterThe = 0 THEN None
                     ELSE Letter(Word(afterThe, LitLetter, withLetter))
        base == i + Len(LitContain)
    IN  IF ~At(text, i, LitContain) THEN None
        ELSE IF ~IsNone(Rest(base)) THEN Rest(base)
        ELSE IF At(text, base, LitS) /\ ~IsNone(Rest(base + 1)) THEN Rest(base + 1)
        ELSE IF At(text, base, LitIng) THEN Rest(base + 3)
        ELSE None

\* rule 4: the letter at position i, the reading with the most words first
LetterAt(text, i) ==
    IF ~IsNone(LetterRead(text, i, TRUE, TRUE)) THEN LetterRead(text, i, TRUE, TRUE)
    ELSE IF ~IsNone(LetterRead(text, i, TRUE, FALSE)) THEN LetterRead(text, i, TRUE, FALSE)
    ELSE IF ~IsNone(LetterRead(text, i, FALSE, TRUE)) THEN LetterRead(text, i, FALSE, TRUE)
    ELSE LetterRead(text, i, FALSE, FALSE)

LetterOccurrences(text) == {i \in 1..Len(text) : ~IsNone(LetterAt(text, i))}

Rule1(text) == Occurs(text, LitPalindrome) \/ Occurs(text, LitPalindromic)

Rule2(text) == Occurs(text, LitSingleWord) \/ Occurs(text, LitOneWord)

Rule3(text) == LengthOccurrences(text) # {}

Rule4(text) == LetterOccurrences(text) # {}

Rule5(text) == Occurs(text, LitFirstVowel)

AnyRule(text) == Rule1(text) \/ Rule2(text) \/ Rule3(text) \/ Rule4(text) \/ Rule5(text)

\* the numeral of the leftmost occurrence of rule 3
FirstNumeral(text) ==
    LET i == Least(LengthOccurrences(text))
        from == NumeralFrom(text, i)
        to == CHOOSE to \in NumeralEnds(text, i) : TRUE
    IN  [k \in 1..(to - from + 1) |-> text[from + k - 1]]

\* C8: the parsed_filters of a successful natural-language request are those
\* of the five rules on the lower-cased query: is_palindrome = true iff rule 1
\* matches, word_count = 1 iff rule 2 matches, min_length = N + 1 iff rule 3
\* matches (N of the leftmost match), contains_character iff rule 4 or rule 5
\* matches, "a" whenever rule 5 matches and else the letter of rule 4.
C8_ParsedFilters ==
    (resp.op = "nl" /\ resp.status = 200)
    => LET parsed_filters == resp.body.interpreted_query.parsed_filters
           Has(k) == k \in DOMAIN parsed_filters
       IN  /\ DOMAIN parsed_filters \subseteq
                 {"is_palindrome", "word_count", "min_length", "contains_character"}
           /\ Has("is_palindrome") <=> Rule1(QueryLower)
           /\ Has("is_palindrome") => parsed_filters["is_palindrome"] = TRUE
           /\ Has("word_count") <=> Rule2(QueryLower)
           /\ Has("word_count") => parsed_filters["word_count"] = 1
           /\ Has("min_length") <=> Rule3(QueryLower)
           /\ Has("min_length")
                 => parsed_filters["min_length"] = DecimalValue(FirstNumeral(QueryLower)) + 1
           /\ Has("contains_character") <=> (Rule4(QueryLower) \/ Rule5(QueryLower))
           /\ Rule5(QueryLower) => parsed_filters["contains_character"] = <<"a">>
           /\ (Rule4(QueryLower) /\ ~Rule5(QueryLower))
                 => Some(parsed_filters["contains_character"])
                        = LetterAt(QueryLower, Least(LetterOccurrences(QueryLower)))

\* "first vowel" has overwritten the letter b that rule 4 matched
C8_Witness ==
    /\ resp.op = "nl"
    /\ resp.status = 200
    /\ Rule5(QueryLower)
    /\ Rule4(QueryLower)
    /\ LetterAt(QueryLower, Least(LetterOccurrences(QueryLower))) = Some(<<"b">>)
    /\ resp.body.interpreted_query.parsed_filters["contains_character"] = <<"a">>
    /\ Len(store) > 0

\* C9 as stated: the natural-language filter answers 400 if and only if none
\* of the five rules matches the query; when a rule matches it answers 200,
\* echoes the query and the non-empty parsed_filters, and count is the number
\* of returned records.
C9_UnparseableIffNoRule ==
    resp.op = "nl"
    => /\ resp.status = 400 <=> ~AnyRule(QueryLower)
       /\ AnyRule(QueryLower)
             => /\ resp.status = 200
                /\ resp.body.interpreted_query.original = resp.query
                /\ DOMAIN resp.body.interpreted_query.parsed_filters # {}
                /\ resp.body.count = Len(resp.body.data)

\* rule 3 matches a numeral that int() does not convert
NumeralTooLong(text) ==
    Rule3(text) /\ Len(FirstNumeral(text)) > IntMaxStrDigits

\* C9 amended: the natural-language filter answers 400 if and only if no rule
\* matches the query or the numeral matched by rule 3 has more than 4300
\* digits; in every other case it answers 200, echoes the query and the
\* non-empty parsed_filters, and count is the number of returned records.
C9_UnparseableIffNoRuleOrNumeral ==
    resp.op = "nl"
    => /\ resp.status = 400 <=> (~AnyRule(QueryLower) \/ NumeralTooLong(QueryLower))
       /\ (AnyRule(QueryLower) /\ ~NumeralTooLong(QueryLower))
             => /\ resp.status = 200
                /\ resp.body.interpreted_query.original = resp.query
                /\ DOMAIN resp.body.interpreted_query.parsed_filters # {}
                /\ resp.body.count = Len(resp.body.data)

\* a query that matches rule 1 and a numeral of 4301 digits has been answered 400
C9_Witness ==
    /\ resp.op = "nl"
    /\ resp.status = 400
    /\ Rule1(QueryLower)
    /\ NumeralTooLong(QueryLower)

\* C10: when two creates of different values, or a create and a delete of
\* different values, are served concurrently and both answer success, the
\* store holds the effect of both.
C10_NoLostUpdate ==
    \A w, u \in Workers :
        (/\ w # u
         /\ served[w] = 1 /\ served[u] = 1
         /\ pc[w] = "idle" /\ pc[u] = "idle"
         /\ res[w].op = "create" /\ res[w].status = 201
         /\ res[u].status \in {201, 204}
         /\ res[w].value # res[u].value)
        => /\ HasValue(store, res[w].value)
           /\ res[u].op = "create" => HasValue(store, res[u].value)
           /\ res[u].op = "delete" => ~HasValue(store, res[u].value)

\* parsed_filters as the query parameters of GET /strings: a boolean is sent as
\* the text "true" or "false", an absent key is an absent parameter
AsText(b) == IF b THEN <<"t", "r", "u", "e">> ELSE <<"f", "a", "l", "s", "e">>

AsCriteria(parsed_filters) ==
    LET Has(k) == k \in DOMAIN parsed_filters
    IN  [is_palindrome |-> IF Has("is_palindrome")
                           THEN Some(AsText(parsed_filters["is_palindrome"])) ELSE None,
         min_length |-> IF Has("min_length")
                        THEN Some(parsed_filters["min_length"]) ELSE None,
         max_length |-> IF Has("max_length")
                        THEN Some(parsed_filters["max_length"]) ELSE None,
         word_count |-> IF Has("word_count")
                        THEN Some(parsed_filters["word_count"]) ELSE None,
         contains_character |-> IF Has("contains_character")
                                THEN Some(parsed_filters["contains_character"]) ELSE None]

\* the answer of GET /strings to the criteria the translator parsed
Delegated == GetStringsOn(store, AsCriteria(resp.body.interpreted_query.parsed_filters))

\* C11: whenever the natural-language filter answers 200, GET /strings accepts
\* the parsed criteria and returns the same records, in the same order, from
\* the same stored list
C11_SameAsStructuredFilter ==
    (resp.op = "nl" /\ resp.status = 200)
        => /\ Delegated.status = 200
           /\ Delegated.body.data = resp.body.data
           /\ Delegated.body.count = resp.body.count

\* a query of two rules that keeps some records and drops others
C11_Witness ==
    /\ resp.op = "nl"
    /\ resp.status = 200
    /\ Cardinality(DOMAIN resp.body.interpreted_query.parsed_filters) >= 2
    /\ "contains_character" \in DOMAIN resp.body.interpreted_query.parsed_filters
    /\ resp.body.count >= 1
    /\ resp.body.count < Len(store)
    /\ Delegated.body.data = resp.body.data

\* what the rules parsed from the query of the last request
Parsed == ParseQuery(resp.query).parsed_filters

\* the keys and values the rules may store, and the answer that goes with them
NeverConflicting(parsed_filters) ==
    /\ resp.status \in {200, 400}
    /\ "max_length" \notin DOMAIN parsed_filters
    /\ "min_length" \in DOMAIN parsed_filters => parsed_filters["min_length"] >= 1
    /\ "word_count" \in DOMAIN parsed_filters => parsed_filters["word_count"] = 1
    /\ "contains_character" \in DOMAIN parsed_filters
           => /\ Len(parsed_filters["contains_character"]) = 1
              /\ \E i \in 1..Len(LowerLetters) :
                     parsed_filters["contains_character"][1] = LowerLetters[i]
    /\ ValidationError(AsCriteria(parsed_filters)) = None
    /\ resp.status = 200
           => resp.body.interpreted_query.parsed_filters = parsed_filters

\* C12: no query makes the rules store max_length, so the natural-language
\* filter never answers 422: it answers 200 or 400.  Whatever the rules store
\* passes the parameter checks of GET /strings: min_length is at least 1,
\* word_count is 1, contains_character is one lower-case letter
C12_NeverConflicting == resp.op = "nl" => NeverConflicting(Parsed)

\* a query with a length rule and a character rule answered 200
C12_Witness ==
    /\ resp.op = "nl"
    /\ resp.status = 200
    /\ {"min_length", "contains_character"}
           \subseteq DOMAIN resp.body.interpreted_query.parsed_filters
    /\ resp.body.interpreted_query.parsed_filters["min_length"] >= 2
    /\ NeverConflicting(Parsed)

\* the stored list is the one before the step
StoreKept == store' = store

\* the stored list is the one before the step with one record of the given
\* value added at the end
StoreAppended(value) ==
    /\ Len(store') = Len(store) + 1
    /\ \A i \in 1..Len(store) : store'[i] = store[i]
    /\ store'[Len(store')].value = value

\* the stored list is the one before the step without the records of the given
\* value, the others as they were and in their order, and some record is gone
StoreRemoved(value) ==
    /\ store' = SelectSeq(store, LAMBDA d : d.value # value)
    /\ Len(store') < Len(store)

\* C13: a step that serves get-by-value, GET /strings or the natural-language
\* filter leaves the stored list unchanged, and so does a create answering
\* 400, 422 or 409 and a delete answering 404; a create answering 201 appends
\* one record and a delete answering 204 removes the records of its value
C13_Frame ==
    [][/\ resp'.op \in {"get", "list", "nl"} => StoreKept
       /\ resp'.op = "create"
              => /\ resp'.status \in {201, 400, 409, 422}
                 /\ resp'.status # 201 => StoreKept
                 /\ resp'.status = 201 => StoreAppended(resp'.payload.value)
       /\ resp'.op = "delete"
              => /\ resp'.status \in {204, 404}
                 /\ resp'.status = 404 => StoreKept
                 /\ resp'.status = 204 => StoreRemoved(resp'.value)]_vars

\* GET /strings returned fewer records than are stored, and they are all
\* still stored
C13_Witness ==
    /\ resp.op = "list"
    /\ resp.status = 200
    /\ Len(store) = 2
    /\ resp.body.count = 1

====
